---------------------------- MODULE Spec2Model ----------------------------
(***************************************************************************)
(* Order lifecycle and checkout engine of the marketplace backend.         *)
(*                                                                         *)
(* The database is the shared state: carts, stock counts, orders, order    *)
(* items, status history and payment transactions.  Every request handler  *)
(* runs on its own connection; a handler that spans several statements or  *)
(* several transactions is a sequence of steps, and the steps of different *)
(* requests interleave.  Statements of an open transaction are kept in the *)
(* request's pending buffer and reach the tables at commit; a rollback     *)
(* drops the buffer.                                                       *)
(*                                                                         *)
(* Money is counted in units of 1/10000 of the currency unit (Scale), so   *)
(* that 12% and 2% of an amount in cents are whole numbers: the values the *)
(* code computes are represented exactly.                                  *)
(***************************************************************************)
EXTENDS Integers, Sequences, FiniteSets, TLC

(***************************************************************************)
(* Bounds of the model.                                                    *)
(***************************************************************************)
MaxOrders == 2      \* order ids handed out by the orders table
MaxLifecycleOrders == 1  \* order ids handed out while orders change status
MaxAdds == 2        \* add-to-cart calls
MaxQty == 2         \* largest quantity of one cart line
MaxHistory == 3     \* rows of order_status_history
InitStock == 1      \* quantity_in_stock of every product and variant at start

(***************************************************************************)
(* Catalogue and principals: rows of products, product_variants and users  *)
(* that the order engine reads and never writes (stock excepted).          *)
(***************************************************************************)
Scale == 100 * 100
Cents(c) == c * (Scale \div 100)

Products == {1, 2}
Variants == {1}
NULL == 0
Workers == {1, 2}

\* products.seller_id
seller_id == (1 :> 3) @@ (2 :> 4)
\* product_variants.product_id
variant_product == (1 :> 1)
\* products.price / product_variants.price, in cents
product_price == (1 :> 10000) @@ (2 :> 500000)
variant_price == (1 :> 104)

\* the principal the auth collaborator supplies for a bearer credential
Principals ==
    { [id |-> 1, is_seller |-> FALSE, seller_status |-> "", role |-> "customer"],
      [id |-> 3, is_seller |-> TRUE, seller_status |-> "approved", role |-> "seller"],
      [id |-> 4, is_seller |-> TRUE, seller_status |-> "active", role |-> "seller"],
      [id |-> 3, is_seller |-> TRUE, seller_status |-> "suspended", role |-> "seller"],
      [id |-> 5, is_seller |-> FALSE, seller_status |-> "", role |-> "admin"] }

Customers == {1, 2}

ValidStatuses == {"pending", "processing", "shipped", "delivered", "cancelled"}
RequestStatuses == ValidStatuses \cup {"refunded"}

VARIABLES
    productStock,    \* products.quantity_in_stock
    variantStock,    \* product_variants.quantity_in_stock
    cart,            \* users that have a row in cart
    cart_items,      \* cart_items rows of each user's cart, in insertion order
    orders,          \* orders rows, by id
    order_items,     \* order_items rows, in insertion order
    order_status_history,  \* order_status_history rows, in insertion order
    payment_transactions,  \* payment_transactions rows, in insertion order
    nextOrderId,     \* AUTO_INCREMENT counter of orders
    adds,            \* add-to-cart calls made so far
    req              \* the request each worker is serving

dbvars == <<productStock, variantStock, cart, cart_items, orders, order_items,
            order_status_history, payment_transactions>>
vars == <<productStock, variantStock, cart, cart_items, orders, order_items,
          order_status_history, payment_transactions, nextOrderId, adds, req>>

NoOrder == [id |-> 0]

Idle ==
    [kind |-> "idle", pc |-> "idle", user |-> 0, delivery |-> "", items |-> <<>>,
     i |-> 0, order |-> NoOrder, pitems |-> <<>>, phist |-> <<>>, ppay |-> <<>>,
     dProd |-> [p \in Products |-> 0], dVar |-> [v \in Variants |-> 0],
     clear |-> FALSE, order_id |-> 0, status |-> "", cur |-> "", raced |-> {},
     short |-> FALSE, entitled |-> FALSE, result |-> ""]

Init ==
    /\ productStock = [p \in Products |-> InitStock]
    /\ variantStock = [v \in Variants |-> InitStock]
    /\ cart = {}
    /\ cart_items = [u \in Customers |-> <<>>]
    /\ orders = <<>>
    /\ order_items = <<>>
    /\ order_status_history = <<>>
    /\ payment_transactions = <<>>
    /\ nextOrderId = 1
    /\ adds = 0
    /\ req = [w \in Workers |-> Idle]


(***************************************************************************)
(* Helpers on sequences.                                                   *)
(***************************************************************************)
RECURSIVE SumSeq(_)
SumSeq(s) == IF s = <<>> THEN 0 ELSE Head(s) + SumSeq(Tail(s))

Range(s) == {s[k] : k \in DOMAIN s}

\* the response of a finished request: what was asked and how it ended
Done(r, res) ==
    [Idle EXCEPT !.kind = r.kind, !.pc = "done",
                 !.user = IF r.kind = "seller_status" THEN 0 ELSE r.user,
                 !.items = r.items, !.status = r.status, !.cur = r.cur,
                 !.short = r.short, !.entitled = r.entitled, !.result = res]

InFlight(w) == req[w].pc \notin {"idle", "done"}

(***************************************************************************)
(* Cart: CartModel.add_item.  One transaction: the line of the same        *)
(* product and variant is topped up, otherwise a line is inserted; the     *)
(* price is captured from the variant when one is given, else the product. *)
(***************************************************************************)
CartLines == {<<1, NULL>>, <<1, 1>>, <<2, NULL>>}

LinePrice(product_id, variant_id) ==
    IF variant_id # NULL THEN variant_price[variant_id] ELSE product_price[product_id]

ExistingItem(items, product_id, variant_id) ==
    {k \in DOMAIN items :
        items[k].product_id = product_id /\ items[k].variant_id = variant_id}

add_item(items, product_id, variant_id, quantity) ==
    LET existing == ExistingItem(items, product_id, variant_id)
        price == LinePrice(product_id, variant_id)
    IN IF existing # {}
       THEN LET k == CHOOSE k \in existing : \A j \in existing : k <= j
            IN [items EXCEPT ![k] = [@ EXCEPT !.quantity = @ + quantity,
                                              !.price_at_time = price]]
       ELSE Append(items, [product_id |-> product_id, variant_id |-> variant_id,
                           quantity |-> quantity, price_at_time |-> price])

NewQuantity(items, product_id, variant_id, quantity) ==
    LET existing == ExistingItem(items, product_id, variant_id)
    IN IF existing = {} THEN quantity
       ELSE items[CHOOSE k \in existing : TRUE].quantity + quantity

AddItem(u, product_id, variant_id, quantity) ==
    /\ adds < MaxAdds
    /\ NewQuantity(cart_items[u], product_id, variant_id, quantity) <= MaxQty
    /\ cart' = cart \cup {u}
    /\ cart_items' = [cart_items EXCEPT
                        ![u] = add_item(@, product_id, variant_id, quantity)]
    /\ adds' = adds + 1
    /\ UNCHANGED <<productStock, variantStock, orders, order_items,
                   order_status_history, payment_transactions, nextOrderId, req>>

(***************************************************************************)
(* Pricing.                                                                *)
(***************************************************************************)
LineSubtotal(item) == Cents(item.price_at_time) * item.quantity

Subtotal(items) == SumSeq([k \in DOMAIN items |-> LineSubtotal(items[k])])

\* the tax taken out of a subtotal that would include it
TaxIncluded(subtotal) == (subtotal * 12) \div 112

Tax(subtotal) == (subtotal * 12) \div 100

MarketplaceFee(subtotal) == (subtotal * 2) \div 100

\* CheckoutModel.create_order: shipping_fees.get(delivery_option, 50.00)
shipping_fees(delivery_option) ==
    CASE delivery_option = "standard" -> Cents(5000)
      [] delivery_option = "express" -> Cents(15000)
      [] delivery_option = "same_day" -> Cents(30000)
      [] delivery_option = "pickup" -> 0
      [] OTHER -> Cents(5000)

\* routes/checkout_routes.py
calculate_shipping_fee(delivery_option, subtotal) ==
    IF subtotal >= Cents(500000) /\ delivery_option # "pickup"
    THEN 0
    ELSE CASE delivery_option = "standard" -> Cents(5000)
           [] delivery_option = "express" -> Cents(15000)
           [] delivery_option = "same_day" -> Cents(25000)
           [] delivery_option = "pickup" -> 0
           [] OTHER -> Cents(5000)

\* a total that leaves the marketplace fee out
ModelTotalNoFee(subtotal, tax, shipping_fee, marketplace_fee) ==
    subtotal + tax + shipping_fee

ModelTotal(subtotal, tax, shipping_fee, marketplace_fee) ==
    subtotal + tax + shipping_fee + marketplace_fee

RouteTotal(subtotal, tax, marketplace_fee, shipping_fee, discount) ==
    subtotal + tax + marketplace_fee + shipping_fee - discount

OrderRow(id, user_id, subtotal, tax, shipping_fee, marketplace_fee, discount, total, delivery_option) ==
    [id |-> id, user_id |-> user_id, status |-> "pending",
     payment_status |-> "pending", subtotal |-> subtotal, tax |-> tax,
     shipping_fee |-> shipping_fee, marketplace_fee |-> marketplace_fee,
     discount |-> discount, total |-> total, delivery_option |-> delivery_option,
     shipped_at |-> 0, delivered_at |-> 0, cancelled_at |-> 0, updated_at |-> 0,
     paid_at |-> 0]

HistoryRow(order_id, status, created_by) ==
    [order_id |-> order_id, status |-> status, created_by |-> created_by]

OrderItemRow(order_id, item, subtotal) ==
    [order_id |-> order_id, product_id |-> item.product_id,
     variant_id |-> item.variant_id, quantity |-> item.quantity,
     price |-> Cents(item.price_at_time), subtotal |-> subtotal]

(***************************************************************************)
(* Transactions: commit publishes the pending writes of a request,         *)
(* rollback drops them.                                                    *)
(***************************************************************************)
Publish(r) ==
    /\ orders' = IF r.order.id # 0 THEN orders @@ (r.order.id :> r.order) ELSE orders
    /\ order_items' = order_items \o r.pitems
    /\ order_status_history' = order_status_history \o r.phist
    /\ payment_transactions' = payment_transactions \o r.ppay
    /\ productStock' = [p \in Products |-> productStock[p] - r.dProd[p]]
    /\ variantStock' = [v \in Variants |-> variantStock[v] - r.dVar[v]]
    /\ cart_items' = IF r.clear THEN [cart_items EXCEPT ![r.user] = <<>>]
                     ELSE cart_items
    /\ UNCHANGED cart

\* checkouts that have read their cart and not finished when w commits
OpenCheckouts(w) ==
    {x \in Workers \ {w} :
        req[x].kind \in {"create_order", "process_checkout"} /\ InFlight(x)}

commit(w) ==
    /\ Publish(req[w])
    /\ req' = [req EXCEPT ![w] =
                 [Done(@, "ok") EXCEPT !.raced = OpenCheckouts(w)]]

\* a rollback that lets the pending writes through
rollbackPublishes(w) ==
    /\ Publish(req[w])
    /\ req' = [req EXCEPT ![w] = Done(@, "error")]

rollback(w) ==
    /\ UNCHANGED dbvars
    /\ req' = [req EXCEPT ![w] = Done(@, "error")]


(***************************************************************************)
(* CheckoutModel.create_order.                                             *)
(***************************************************************************)
\* the rows of the cart query: cart lines joined with the current stock
CartQuery(u) ==
    IF u \in cart
    THEN [k \in DOMAIN cart_items[u] |->
            LET ci == cart_items[u][k]
            IN [product_id |-> ci.product_id, variant_id |-> ci.variant_id,
                quantity |-> ci.quantity, price_at_time |-> ci.price_at_time,
                product_stock |-> productStock[ci.product_id],
                variant_stock |-> IF ci.variant_id # NULL
                                  THEN variantStock[ci.variant_id] ELSE NULL]]
    ELSE <<>>

available_stock(item) ==
    IF item.variant_id # NULL THEN item.variant_stock ELSE item.product_stock

Insufficient(items) ==
    {k \in DOMAIN items : available_stock(items[k]) < items[k].quantity}

\* checkouts that hold or will still take an order id
OrderIdsClaimed ==
    Cardinality({w \in Workers : req[w].pc \in {"callproc", "insert_order"}})

\* a worker takes a request when it has none or has answered the last one
Free(w) == req[w].pc \in {"idle", "done"}

Start(w, r) ==
    req' = [x \in Workers |->
              IF x = w THEN r ELSE [req[x] EXCEPT !.raced = @ \ {w}]]

\* an order id is left for a checkout that goes on to create an order
OrderIdLeft(limit) == nextOrderId + OrderIdsClaimed <= limit

\* some line of the user's cart asks for more than the stock of its row
Short(u) ==
    \E k \in DOMAIN cart_items[u] :
        LET ci == cart_items[u][k]
        IN ci.quantity > (IF ci.variant_id # NULL THEN variantStock[ci.variant_id]
                          ELSE productStock[ci.product_id])

CreateOrderRead(w, u, delivery_option, limit) ==
    /\ Free(w)
    /\ LET cart_rows == CartQuery(u)
           r == [Idle EXCEPT !.kind = "create_order", !.user = u,
                             !.delivery = delivery_option, !.items = cart_rows,
                             !.short = Short(u)]
       IN IF cart_rows = <<>> THEN Start(w, Done(r, "cart_empty"))
          ELSE IF Insufficient(cart_rows) # {}
               THEN Start(w, Done(r, "insufficient_stock"))
               ELSE /\ OrderIdLeft(limit)
                    /\ Start(w, [r EXCEPT !.pc = "callproc"])
    /\ UNCHANGED <<dbvars, nextOrderId, adds>>

\* the stored procedure create_order: the orders row and its first history row
ProcCreateOrder(r, id, subtotal, tax, shipping_fee, marketplace_fee, total) ==
    [r EXCEPT !.order = OrderRow(id, r.user, subtotal, tax, shipping_fee,
                                 marketplace_fee, 0, total, r.delivery),
              !.phist = Append(@, HistoryRow(id, "pending", NULL))]

CreateOrderCallProc(w) ==
    /\ req[w].kind = "create_order"
    /\ req[w].pc = "callproc"
    /\ LET subtotal == Subtotal(req[w].items)
           tax == Tax(subtotal)
           shipping_fee == shipping_fees(req[w].delivery)
           marketplace_fee == MarketplaceFee(subtotal)
           total == ModelTotal(subtotal, tax, shipping_fee, marketplace_fee)
       IN req' = [req EXCEPT ![w] =
                    [ProcCreateOrder(@, nextOrderId, subtotal, tax, shipping_fee,
                                     marketplace_fee, total)
                       EXCEPT !.pc = "items", !.i = 1]]
    /\ nextOrderId' = nextOrderId + 1
    /\ UNCHANGED <<dbvars, adds>>

\* a line subtotal that forgets the quantity
item_subtotal_unit(item) == Cents(item.price_at_time)

item_subtotal(item) == Cents(item.price_at_time) * item.quantity

\* one pass of the loop: the order_items row, then the stock update of the line
DeductStock(r, item) ==
    IF item.variant_id # NULL
    THEN [r EXCEPT !.dVar[item.variant_id] = @ + item.quantity]
    ELSE [r EXCEPT !.dProd[item.product_id] = @ + item.quantity]

CreateOrderItem(w) ==
    /\ req[w].kind = "create_order"
    /\ req[w].pc = "items"
    /\ LET r == req[w]
           item == r.items[r.i]
           r1 == [r EXCEPT !.pitems = Append(@, OrderItemRow(r.order.id, item,
                                                             item_subtotal(item)))]
           r2 == DeductStock(r1, item)
       IN req' = [req EXCEPT ![w] =
                    [r2 EXCEPT !.i = @ + 1,
                               !.pc = IF r.i = Len(r.items) THEN "clear" ELSE "items"]]
    /\ UNCHANGED <<dbvars, nextOrderId, adds>>

CreateOrderClearCart(w) ==
    /\ req[w].kind = "create_order"
    /\ req[w].pc = "clear"
    /\ req' = [req EXCEPT ![w] = [@ EXCEPT !.clear = TRUE, !.pc = "payment"]]
    /\ UNCHANGED <<dbvars, nextOrderId, adds>>

PaymentRow(order_id, amount) ==
    [order_id |-> order_id, amount |-> amount, status |-> "pending"]

CreateOrderPayment(w) ==
    /\ req[w].kind = "create_order"
    /\ req[w].pc = "payment"
    /\ req' = [req EXCEPT ![w] =
                 [@ EXCEPT !.ppay = Append(@, PaymentRow(req[w].order.id,
                                                         req[w].order.total)),
                           !.pc = "commit"]]
    /\ UNCHANGED <<dbvars, nextOrderId, adds>>

CreateOrderCommit(w) ==
    /\ req[w].kind = "create_order"
    /\ req[w].pc = "commit"
    /\ commit(w)
    /\ UNCHANGED <<nextOrderId, adds>>

\* except Error: rollback, at any statement of the open transaction
CreateOrderError(w) ==
    /\ req[w].kind = "create_order"
    /\ req[w].pc \in {"callproc", "items", "clear", "payment", "commit"}
    /\ rollback(w)
    /\ UNCHANGED <<nextOrderId, adds>>

(***************************************************************************)
(* routes/checkout_routes.py: process_checkout (POST /checkout/process).   *)
(***************************************************************************)
\* the read without the test for an empty cart
ProcessCheckoutReadNoEmptyCheck(w, u, delivery_option, limit) ==
    /\ Free(w)
    /\ LET r == [Idle EXCEPT !.kind = "process_checkout", !.user = u,
                             !.delivery = delivery_option, !.short = Short(u)]
       IN IF u \notin cart THEN Start(w, Done(r, "cart_not_found"))
          ELSE /\ OrderIdLeft(limit)
               /\ Start(w, [r EXCEPT !.items = cart_items[u],
                                     !.pc = "insert_order"])
    /\ UNCHANGED <<dbvars, nextOrderId, adds>>

ProcessCheckoutRead(w, u, delivery_option, limit) ==
    /\ Free(w)
    /\ LET r == [Idle EXCEPT !.kind = "process_checkout", !.user = u,
                             !.delivery = delivery_option, !.short = Short(u)]
       IN IF u \notin cart THEN Start(w, Done(r, "cart_not_found"))
          ELSE IF cart_items[u] = <<>> THEN Start(w, Done(r, "cart_empty"))
               ELSE /\ OrderIdLeft(limit)
                    /\ Start(w, [r EXCEPT !.items = cart_items[u],
                                          !.pc = "insert_order"])
    /\ UNCHANGED <<dbvars, nextOrderId, adds>>

ProcessCheckoutInsertOrder(w) ==
    /\ req[w].kind = "process_checkout"
    /\ req[w].pc = "insert_order"
    /\ LET subtotal == Subtotal(req[w].items)
           tax == Tax(subtotal)
           marketplace_fee == MarketplaceFee(subtotal)
           shipping_fee == calculate_shipping_fee(req[w].delivery, subtotal)
           discount == 0
           total == RouteTotal(subtotal, tax, marketplace_fee, shipping_fee, discount)
       IN req' = [req EXCEPT ![w] =
                    [@ EXCEPT !.order = OrderRow(nextOrderId, req[w].user, subtotal,
                                                 tax, shipping_fee, marketplace_fee,
                                                 discount, total, req[w].delivery),
                              !.pc = "items"]]
    /\ nextOrderId' = nextOrderId + 1
    /\ UNCHANGED <<dbvars, adds>>

ProcessCheckoutItems(w) ==
    /\ req[w].kind = "process_checkout"
    /\ req[w].pc = "items"
    /\ LET r == req[w]
       IN req' = [req EXCEPT ![w] =
                    [@ EXCEPT !.pitems =
                                 [k \in DOMAIN r.items |->
                                    OrderItemRow(r.order.id, r.items[k],
                                                 item_subtotal(r.items[k]))],
                              !.pc = "history"]]
    /\ UNCHANGED <<dbvars, nextOrderId, adds>>

ProcessCheckoutHistory(w) ==
    /\ req[w].kind = "process_checkout"
    /\ req[w].pc = "history"
    /\ req' = [req EXCEPT ![w] =
                 [@ EXCEPT !.phist = Append(@, HistoryRow(req[w].order.id,
                                                          "pending", NULL)),
                           !.pc = "clear"]]
    /\ UNCHANGED <<dbvars, nextOrderId, adds>>

ProcessCheckoutClearCart(w) ==
    /\ req[w].kind = "process_checkout"
    /\ req[w].pc = "clear"
    /\ req' = [req EXCEPT ![w] = [@ EXCEPT !.clear = TRUE, !.pc = "commit"]]
    /\ UNCHANGED <<dbvars, nextOrderId, adds>>

ProcessCheckoutCommit(w) ==
    /\ req[w].kind = "process_checkout"
    /\ req[w].pc = "commit"
    /\ commit(w)
    /\ UNCHANGED <<nextOrderId, adds>>

\* except Exception: rollback
ProcessCheckoutError(w) ==
    /\ req[w].kind = "process_checkout"
    /\ req[w].pc \in {"insert_order", "items", "history", "clear", "commit"}
    /\ rollback(w)
    /\ UNCHANGED <<nextOrderId, adds>>

(***************************************************************************)
(* Seller order routes: routes/order_route.py over models/order_model.py.  *)
(* Each model call opens its own connection and commits: the status        *)
(* update, the history row and the inventory restore of one request are    *)
(* three transactions.                                                     *)
(***************************************************************************)
\* an access test that does not look at seller_status
verify_seller_access_any_status(current_user) ==
    current_user.is_seller \/ current_user.role = "admin"

verify_seller_access(current_user) ==
    \/ current_user.is_seller /\ current_user.seller_status \in {"active", "approved"}
    \/ current_user.role = "admin"

seller_has_items_in_order(order_id, seller) ==
    \E k \in DOMAIN order_items :
        /\ order_items[k].order_id = order_id
        /\ seller_id[order_items[k].product_id] = seller

status_order == <<"pending", "processing", "shipped", "delivered">>

StatusIndex(status) == CHOOSE k \in DOMAIN status_order : status_order[k] = status

\* the validator without the test for a cancelled order
validate_cancelled_open(current_status, new_status) ==
    IF current_status = "delivered" /\ new_status # "cancelled" THEN FALSE
    ELSE IF new_status = "cancelled" /\ current_status \notin {"pending", "processing"}
         THEN FALSE
    ELSE IF /\ new_status \in Range(status_order)
            /\ current_status \in Range(status_order)
            /\ StatusIndex(new_status) < StatusIndex(current_status)
            /\ new_status # "pending"
         THEN FALSE
    ELSE TRUE

\* the validator that lets a shipped order be cancelled
validate_cancel_shipped(current_status, new_status) ==
    IF current_status = "cancelled" THEN FALSE
    ELSE IF current_status = "delivered" /\ new_status # "cancelled" THEN FALSE
    ELSE IF /\ new_status = "cancelled"
            /\ current_status \notin {"pending", "processing", "shipped"}
         THEN FALSE
    ELSE IF /\ new_status \in Range(status_order)
            /\ current_status \in Range(status_order)
            /\ StatusIndex(new_status) < StatusIndex(current_status)
            /\ new_status # "pending"
         THEN FALSE
    ELSE TRUE

validate_status_transition(current_status, new_status) ==
    IF current_status = "cancelled" THEN FALSE
    ELSE IF current_status = "delivered" /\ new_status # "cancelled" THEN FALSE
    ELSE IF new_status = "cancelled" /\ current_status \notin {"pending", "processing"}
         THEN FALSE
    ELSE IF /\ new_status \in Range(status_order)
            /\ current_status \in Range(status_order)
            /\ StatusIndex(new_status) < StatusIndex(current_status)
            /\ new_status # "pending"
         THEN FALSE
    ELSE TRUE

\* rows the requests in flight will still append to order_status_history
HistoryClaimed ==
    Cardinality({w \in Workers : req[w].pc \in {"update", "history"}})

HistoryRoom == Len(order_status_history) + HistoryClaimed < MaxHistory

\* the order has been written less often than the history has room for changes
WritesLeft(order) == order.updated_at < MaxHistory - 1

\* the callers the seller routes are for
MayDriveOrder(c, o) ==
    \/ c.role = "admin"
    \/ /\ c.is_seller
       /\ c.seller_status \in {"active", "approved"}
       /\ \E k \in DOMAIN order_items :
             /\ order_items[k].order_id = o
             /\ seller_id[order_items[k].product_id] = c.id

\* the checks of a seller route up to the first write
SellerRequest(w, current_user, order_id, status, check_status_value) ==
    /\ Free(w)
    /\ LET r == [Idle EXCEPT !.kind = "seller_status", !.user = current_user.id,
                             !.order_id = order_id, !.status = status,
                             !.entitled = MayDriveOrder(current_user, order_id)]
           order == IF order_id \in DOMAIN orders THEN orders[order_id] ELSE NoOrder
           outcome ==
               IF ~verify_seller_access(current_user) THEN "forbidden"
               ELSE IF ~seller_has_items_in_order(order_id, current_user.id)
                    THEN "forbidden"
               ELSE IF check_status_value /\ status \notin ValidStatuses
                    THEN "invalid_status"
               ELSE IF order = NoOrder THEN "not_found"
               ELSE IF ~validate_status_transition(order.status, status)
                    THEN "rejected"
               ELSE "accepted"
           read == IF outcome \in {"rejected", "accepted"}
                   THEN [r EXCEPT !.cur = order.status] ELSE r
       IN /\ outcome = "accepted" => HistoryRoom /\ WritesLeft(order)
          /\ Start(w, IF outcome = "accepted" THEN [read EXCEPT !.pc = "update"]
                      ELSE Done(read, outcome))
    /\ UNCHANGED <<dbvars, nextOrderId, adds>>

\* PATCH /seller/orders/{order_id}/status
UpdateOrderStatus(w, current_user, order_id, status) ==
    SellerRequest(w, current_user, order_id, status, TRUE)

\* PUT /seller/orders/{order_id}/process
ProcessOrder(w, current_user, order_id) ==
    SellerRequest(w, current_user, order_id, "processing", FALSE)

\* PUT /seller/orders/{order_id}/ship
MarkAsShipped(w, current_user, order_id) ==
    SellerRequest(w, current_user, order_id, "shipped", FALSE)

\* PUT /seller/orders/{order_id}/deliver
MarkAsDelivered(w, current_user, order_id) ==
    SellerRequest(w, current_user, order_id, "delivered", FALSE)

\* PUT /seller/orders/{order_id}/cancel
CancelOrder(w, current_user, order_id) ==
    SellerRequest(w, current_user, order_id, "cancelled", FALSE)

\* OrderModel.update_order_status: the status and the timestamp of the status
update_order_status(order, status) ==
    [order EXCEPT !.status = status,
                  !.updated_at = @ + 1,
                  !.shipped_at = IF status = "shipped" THEN @ + 1 ELSE @,
                  !.delivered_at = IF status = "delivered" THEN @ + 1 ELSE @,
                  !.cancelled_at = IF status = "cancelled" THEN @ + 1 ELSE @]

SellerUpdateStatus(w) ==
    /\ req[w].kind = "seller_status"
    /\ req[w].pc = "update"
    /\ LET id == req[w].order_id
       IN IF id \in DOMAIN orders
          THEN /\ orders' = [orders EXCEPT ![id] = update_order_status(@, req[w].status)]
               /\ req' = [req EXCEPT ![w] = [@ EXCEPT !.pc = "history"]]
          ELSE /\ orders' = orders
               /\ req' = [req EXCEPT ![w] = Done(@, "error")]
    /\ UNCHANGED <<productStock, variantStock, cart, cart_items, order_items,
                   order_status_history, payment_transactions, nextOrderId, adds>>

\* a history insert that leaves out who made the change
add_status_history_anonymous(order_id, status, created_by) ==
    Append(order_status_history, HistoryRow(order_id, status, NULL))

\* OrderModel.add_status_history
add_status_history(order_id, status, created_by) ==
    Append(order_status_history, HistoryRow(order_id, status, created_by))

SellerAddHistory(w) ==
    /\ req[w].kind = "seller_status"
    /\ req[w].pc = "history"
    /\ order_status_history' =
          add_status_history(req[w].order_id, req[w].status, req[w].user)
    /\ req' = [req EXCEPT ![w] =
                 IF req[w].status = "cancelled" THEN [@ EXCEPT !.pc = "restore"]
                 ELSE Done(@, "ok")]
    /\ UNCHANGED <<productStock, variantStock, cart, cart_items, orders, order_items,
                   payment_transactions, nextOrderId, adds>>

(***************************************************************************)
(* OrderModel.restore_inventory_for_order: two multi-table UPDATEs.  The   *)
(* first joins products with every line of the order whose product is the  *)
(* seller's, the second joins product_variants with the lines that have a  *)
(* variant.  A multi-table UPDATE changes each matching row once, with the *)
(* values of one of the rows it joins with.                                *)
(***************************************************************************)
ProductLines(order_id, seller, p) ==
    {k \in DOMAIN order_items :
        /\ order_items[k].order_id = order_id
        /\ order_items[k].product_id = p
        /\ seller_id[p] = seller}

VariantLines(order_id, seller, v) ==
    {k \in DOMAIN order_items :
        /\ order_items[k].order_id = order_id
        /\ order_items[k].variant_id = v
        /\ seller_id[variant_product[v]] = seller}

restore_inventory_for_order(order_id, seller) ==
    /\ \E pick \in [Products -> DOMAIN order_items \cup {0}] :
          /\ \A p \in Products :
                IF ProductLines(order_id, seller, p) = {} THEN pick[p] = 0
                ELSE pick[p] \in ProductLines(order_id, seller, p)
          /\ productStock' =
                [p \in Products |->
                    IF pick[p] = 0 THEN productStock[p]
                    ELSE productStock[p] + order_items[pick[p]].quantity]
    /\ \E pick \in [Variants -> DOMAIN order_items \cup {0}] :
          /\ \A v \in Variants :
                IF VariantLines(order_id, seller, v) = {} THEN pick[v] = 0
                ELSE pick[v] \in VariantLines(order_id, seller, v)
          /\ variantStock' =
                [v \in Variants |->
                    IF pick[v] = 0 THEN variantStock[v]
                    ELSE variantStock[v] + order_items[pick[v]].quantity]

SellerRestoreInventory(w) ==
    /\ req[w].kind = "seller_status"
    /\ req[w].pc = "restore"
    /\ restore_inventory_for_order(req[w].order_id, req[w].user)
    /\ req' = [req EXCEPT ![w] = Done(@, "ok")]
    /\ UNCHANGED <<cart, cart_items, orders, order_items, order_status_history,
                   payment_transactions, nextOrderId, adds>>

\* a model call of an accepted request raises: the route answers 500, and what
\* the earlier calls of the request committed stays
SellerError(w) ==
    /\ req[w].kind = "seller_status"
    /\ req[w].pc \in {"update", "history", "restore"}
    /\ req' = [req EXCEPT ![w] = Done(@, "error")]
    /\ UNCHANGED <<dbvars, nextOrderId, adds>>

(***************************************************************************)
(* The two other writers of orders.status.  Each runs the UPDATE of the     *)
(* status and the INSERT of the history row in one transaction, without    *)
(* reading the order first.  For an order id without a row the UPDATE      *)
(* matches nothing and the INSERT either violates the reference to orders  *)
(* or leaves a history row of no order; the table definition decides.  It  *)
(* decides as well whether a status outside the five is stored or refused. *)
(***************************************************************************)
Admin == [id |-> 5, is_seller |-> FALSE, seller_status |-> "", role |-> "admin"]

\* the answer of a status write: the status found (not read by the code) is
\* kept beside the status asked for
StatusAnswer(kind, user, order_id, status, res) ==
    [Idle EXCEPT !.kind = kind, !.pc = "done", !.user = user, !.status = status,
                 !.cur = IF order_id \in DOMAIN orders
                         THEN orders[order_id].status ELSE "",
                 !.result = res]

\* AdminModel.update_order_status: status and updated_at, then the history row
admin_update_order_status(order, status) ==
    [order EXCEPT !.status = status, !.updated_at = @ + 1]

\* CheckoutModel.update_order_status: status, history row, timestamp of the status
checkout_update_order_status(order, status) ==
    [order EXCEPT !.status = status,
                  !.shipped_at = IF status = "shipped" THEN @ + 1 ELSE @,
                  !.delivered_at = IF status = "delivered" THEN @ + 1 ELSE @,
                  !.cancelled_at = IF status = "cancelled" THEN @ + 1 ELSE @]

\* the writes of one such transaction, or the failed INSERT for a missing order
StatusAndHistory(w, answer, order_id, status, created_by, written) ==
    /\ Free(w)
    /\ \/ /\ order_id \in DOMAIN orders
          /\ HistoryRoom
          /\ orders' = [orders EXCEPT ![order_id] = written]
          /\ order_status_history' = add_status_history(order_id, status, created_by)
          /\ Start(w, [answer EXCEPT !.result = "ok"])
       \/ /\ order_id \notin DOMAIN orders
          /\ HistoryRoom
          /\ orders' = orders
          /\ order_status_history' = add_status_history(order_id, status, created_by)
          /\ Start(w, [answer EXCEPT !.result = "ok"])
       \/ /\ order_id \notin DOMAIN orders \/ status \notin ValidStatuses
          /\ UNCHANGED <<orders, order_status_history>>
          /\ Start(w, [answer EXCEPT !.result = "error"])
    /\ UNCHANGED <<productStock, variantStock, cart, cart_items, order_items,
                   payment_transactions, nextOrderId, adds>>

\* PUT /admin/orders/{order_id}/status
AdminUpdateOrderStatus(w, current_user, order_id, status) ==
    IF current_user.role # "admin"
    THEN /\ Free(w)
         /\ Start(w, StatusAnswer("admin_status", current_user.id, order_id, status,
                                  "forbidden"))
         /\ UNCHANGED <<dbvars, nextOrderId, adds>>
    ELSE StatusAndHistory(w,
            StatusAnswer("admin_status", current_user.id, order_id, status, ""),
            order_id, status, current_user.id,
            IF order_id \in DOMAIN orders
            THEN admin_update_order_status(orders[order_id], status) ELSE NoOrder)

\* CheckoutModel.update_order_status(order_id, status, notes, user_id)
CheckoutUpdateOrderStatus(w, order_id, status, user_id) ==
    StatusAndHistory(w,
        StatusAnswer("checkout_status", user_id, order_id, status, ""),
        order_id, status, user_id,
        IF order_id \in DOMAIN orders
        THEN checkout_update_order_status(orders[order_id], status) ELSE NoOrder)

(***************************************************************************)
(* CheckoutModel.update_payment_status: one transaction that sets the      *)
(* payment_status of the order, paid_at when the status is paid, and the   *)
(* status of the payment transactions of the order.  No route calls it.    *)
(***************************************************************************)
PaymentStatuses == {"paid", "failed"}

\* a payment update that also settles the total
update_payment_status_settling(order, payment_status) ==
    [order EXCEPT !.payment_status = payment_status,
                  !.total = IF payment_status = "paid" THEN 0 ELSE @,
                  !.paid_at = IF payment_status = "paid" THEN @ + 1 ELSE @]

update_payment_status(order, payment_status) ==
    [order EXCEPT !.payment_status = payment_status,
                  !.paid_at = IF payment_status = "paid" THEN @ + 1 ELSE @]

PaidWritesLeft(order) == order.paid_at < MaxHistory - 1

UpdatePaymentStatus(w, order_id, payment_status) ==
    /\ Free(w)
    /\ IF order_id \in DOMAIN orders
       THEN /\ payment_status = "paid" => PaidWritesLeft(orders[order_id])
            /\ orders' = [orders EXCEPT ![order_id] =
                            update_payment_status(@, payment_status)]
       ELSE orders' = orders
    /\ payment_transactions' =
          [k \in DOMAIN payment_transactions |->
              IF payment_transactions[k].order_id = order_id
              THEN [payment_transactions[k] EXCEPT !.status = payment_status]
              ELSE payment_transactions[k]]
    /\ Start(w, [Idle EXCEPT !.kind = "payment_status", !.pc = "done",
                             !.status = payment_status, !.result = "ok"])
    /\ UNCHANGED <<productStock, variantStock, cart, cart_items, order_items,
                   order_status_history, nextOrderId, adds>>

(***************************************************************************)
(* The customer's lookups of one order.  Each selects the row of orders    *)
(* with the id asked for and the caller's user_id, answers "Order not      *)
(* found" when the SELECT gives no row, and otherwise adds the lines of    *)
(* the order (the customer route of order_route also the status history).  *)
(***************************************************************************)
OrderNotFound == [result |-> "not_found", order |-> NoOrder, items |-> <<>>, history |-> <<>>]

OrderLines(order_id) == SelectSeq(order_items, LAMBDA it : it.order_id = order_id)

\* a lookup by the id alone
get_order_of_any_user(order_id, user_id) ==
    IF order_id \in DOMAIN orders
    THEN [result |-> "ok", order |-> orders[order_id],
          items |-> OrderLines(order_id), history |-> <<>>]
    ELSE OrderNotFound

\* CheckoutModel.get_order
get_order(order_id, user_id) ==
    IF order_id \in DOMAIN orders /\ orders[order_id].user_id = user_id
    THEN [result |-> "ok", order |-> orders[order_id],
          items |-> OrderLines(order_id), history |-> <<>>]
    ELSE OrderNotFound

\* GET /checkout/{order_id}
get_order_details(order_id, current_user) ==
    IF order_id \in DOMAIN orders /\ orders[order_id].user_id = current_user
    THEN [result |-> "ok", order |-> orders[order_id],
          items |-> OrderLines(order_id), history |-> <<>>]
    ELSE OrderNotFound

\* GET /customer/orders/{order_id}: OrderModel.get_customer_order_details, then
\* OrderModel.get_order_status_history
get_customer_order_details(order_id, user_id) ==
    IF order_id \in DOMAIN orders /\ orders[order_id].user_id = user_id
    THEN [result |-> "ok", order |-> orders[order_id],
          items |-> OrderLines(order_id),
          history |-> SelectSeq(order_status_history,
                                LAMBDA h : h.order_id = order_id)]
    ELSE OrderNotFound

LookupKinds == {"get_order", "get_order_details", "get_customer_order_details"}

Lookup(w, kind, order_id, user_id, answer) ==
    /\ Free(w)
    /\ Start(w, [Idle EXCEPT !.kind = kind, !.pc = "done", !.user = user_id,
                             !.order_id = order_id, !.order = answer.order,
                             !.pitems = answer.items, !.phist = answer.history,
                             !.result = answer.result])
    /\ UNCHANGED <<dbvars, nextOrderId, adds>>

GetOrder(w, order_id, user_id) ==
    Lookup(w, "get_order", order_id, user_id, get_order(order_id, user_id))

GetOrderDetails(w, order_id, current_user) ==
    Lookup(w, "get_order_details", order_id, current_user,
           get_order_details(order_id, current_user))

GetCustomerOrderDetails(w, order_id, current_user) ==
    Lookup(w, "get_customer_order_details", order_id, current_user,
           get_customer_order_details(order_id, current_user))

(***************************************************************************)
(* Specifications.  Spec serves one request at a time, with every handler  *)
(* and every input; the race specifications let two workers interleave the *)
(* steps of the handlers they name.                                        *)
(***************************************************************************)
OrderIds == 1..MaxOrders

Shopping ==
    \E u \in Customers, l \in CartLines, q \in 1..MaxQty : AddItem(u, l[1], l[2], q)

CreateOrderSteps(w) ==
    \/ CreateOrderCallProc(w)
    \/ CreateOrderItem(w)
    \/ CreateOrderClearCart(w)
    \/ CreateOrderPayment(w)
    \/ CreateOrderCommit(w)
    \/ CreateOrderError(w)

ProcessCheckoutSteps(w) ==
    \/ ProcessCheckoutInsertOrder(w)
    \/ ProcessCheckoutItems(w)
    \/ ProcessCheckoutHistory(w)
    \/ ProcessCheckoutClearCart(w)
    \/ ProcessCheckoutCommit(w)
    \/ ProcessCheckoutError(w)

SellerSteps(w, ids) ==
    \/ \E c \in Principals, o \in ids, st \in RequestStatuses :
          UpdateOrderStatus(w, c, o, st)
    \/ \E c \in Principals, o \in ids : ProcessOrder(w, c, o)
    \/ \E c \in Principals, o \in ids : MarkAsShipped(w, c, o)
    \/ \E c \in Principals, o \in ids : MarkAsDelivered(w, c, o)
    \/ \E c \in Principals, o \in ids : CancelOrder(w, c, o)
    \/ SellerUpdateStatus(w)
    \/ SellerAddHistory(w)
    \/ SellerRestoreInventory(w)
    \/ SellerError(w)

Next ==
    \/ \E l \in CartLines, q \in 1..MaxQty : AddItem(1, l[1], l[2], q)
    \/ CreateOrderRead(1, 1, "standard", MaxLifecycleOrders)
    \/ CreateOrderSteps(1)
    \/ ProcessCheckoutRead(1, 1, "standard", MaxLifecycleOrders)
    \/ ProcessCheckoutSteps(1)
    \/ SellerSteps(1, 1..MaxLifecycleOrders)

Spec == Init /\ [][Next]_vars

\* two workers serve checkouts of two customers
NextCheckout ==
    \/ Shopping
    \/ \E w \in Workers, u \in Customers : CreateOrderRead(w, u, "standard", MaxOrders)
    \/ \E w \in Workers : CreateOrderSteps(w)
    \/ \E w \in Workers, u \in Customers :
          ProcessCheckoutRead(w, u, "standard", MaxOrders)
    \/ \E w \in Workers : ProcessCheckoutSteps(w)

SpecCheckout == Init /\ [][NextCheckout]_vars

\* one worker: two customers check out and look orders up
NextLookup ==
    \/ Shopping
    \/ \E u \in Customers : ProcessCheckoutRead(1, u, "standard", MaxOrders)
    \/ ProcessCheckoutSteps(1)
    \/ \E o \in 1..(MaxOrders + 1), u \in Customers : GetOrder(1, o, u)
    \/ \E o \in 1..(MaxOrders + 1), u \in Customers : GetOrderDetails(1, o, u)
    \/ \E o \in 1..(MaxOrders + 1), u \in Customers : GetCustomerOrderDetails(1, o, u)

SpecLookup == Init /\ [][NextLookup]_vars

\* one worker: checkout, then the admin route and CheckoutModel change statuses
NextEntryPoints ==
    \/ AddItem(1, 1, NULL, 1)
    \/ ProcessCheckoutRead(1, 1, "standard", MaxLifecycleOrders)
    \/ ProcessCheckoutSteps(1)
    \/ \E c \in {Admin, CHOOSE c \in Principals : c.id = 1},
          o \in 1..MaxLifecycleOrders, st \in RequestStatuses :
          AdminUpdateOrderStatus(1, c, o, st)
    \/ \E o \in 1..MaxLifecycleOrders, st \in RequestStatuses :
          CheckoutUpdateOrderStatus(1, o, st, NULL)

SpecEntryPoints == Init /\ [][NextEntryPoints]_vars

\* one worker: an order of one line and every operation that writes to it
NextOrderWriters ==
    \/ AddItem(1, 1, NULL, 1)
    \/ CreateOrderRead(1, 1, "standard", MaxLifecycleOrders)
    \/ CreateOrderSteps(1)
    \/ \E c \in {c \in Principals : c.seller_status = "approved"},
          o \in 1..MaxLifecycleOrders, st \in ValidStatuses :
          UpdateOrderStatus(1, c, o, st)
    \/ SellerUpdateStatus(1)
    \/ SellerAddHistory(1)
    \/ SellerRestoreInventory(1)
    \/ SellerError(1)
    \/ \E o \in 1..MaxLifecycleOrders, st \in {"shipped", "cancelled"} :
          AdminUpdateOrderStatus(1, Admin, o, st)
    \/ \E o \in 1..MaxLifecycleOrders, st \in {"shipped", "cancelled"} :
          CheckoutUpdateOrderStatus(1, o, st, NULL)
    \/ \E o \in 1..MaxLifecycleOrders, ps \in PaymentStatuses :
          UpdatePaymentStatus(1, o, ps)

SpecOrderWriters == Init /\ [][NextOrderWriters]_vars

\* two workers serve requests of the owning seller on one order of one line
OwningSeller == CHOOSE c \in Principals : c.id = 3 /\ c.seller_status = "approved"

NextStatusRace ==
    \/ AddItem(1, 1, NULL, 1)
    \/ CreateOrderRead(1, 1, "standard", MaxLifecycleOrders)
    \/ CreateOrderSteps(1)
    \/ \E w \in Workers :
          \/ ProcessOrder(w, OwningSeller, 1)
          \/ MarkAsShipped(w, OwningSeller, 1)
          \/ CancelOrder(w, OwningSeller, 1)
          \/ SellerUpdateStatus(w)
          \/ SellerAddHistory(w)
          \/ SellerRestoreInventory(w)

SpecStatusRace == Init /\ [][NextStatusRace]_vars

\* one worker, one customer, every delivery option
AllDeliveryOptions == {"standard", "express", "same_day", "pickup"}

\* create_order takes delivery_option as a str: the four options and one other
DeliveryOptionArguments == AllDeliveryOptions \cup {"drone"}

NextPricing ==
    \/ \E l \in CartLines, q \in 1..MaxQty : AddItem(1, l[1], l[2], q)
    \/ \E d \in DeliveryOptionArguments : CreateOrderRead(1, 1, d, MaxOrders)
    \/ CreateOrderSteps(1)
    \/ \E d \in AllDeliveryOptions : ProcessCheckoutRead(1, 1, d, MaxOrders)
    \/ ProcessCheckoutSteps(1)

SpecPricing == Init /\ [][NextPricing]_vars

(***************************************************************************)
(* Properties.                                                             *)
(***************************************************************************)
Checkouts == {"create_order", "process_checkout"}

\* the stock row a line draws on: the variant's if it has one, else the product's
StockOf(item) ==
    IF item.variant_id # NULL THEN variantStock[item.variant_id]
    ELSE productStock[item.product_id]

SameStockRow(a, b) ==
    a.product_id = b.product_id /\ a.variant_id = b.variant_id

\* worker w answered a create_order for one unit of a row whose stock it read as 1
LastUnitCheckout(w) ==
    /\ req[w].kind = "create_order"
    /\ req[w].pc = "done"
    /\ Len(req[w].items) = 1
    /\ req[w].items[1].quantity = 1
    /\ available_stock(req[w].items[1]) = 1

\* C1: of two overlapping checkouts of two customers that each ask for one unit
\* of a row whose stock is 1 and that meet no database error, exactly one
\* succeeds, the other ends with the insufficient-stock error, and the stock of
\* the row is 0.
C1_OneOfTwoLastUnitCheckoutsSucceeds ==
    \A w1, w2 \in Workers :
        ( /\ w1 # w2
          /\ req[w1].user # req[w2].user
          /\ LastUnitCheckout(w1) /\ LastUnitCheckout(w2)
          /\ SameStockRow(req[w1].items[1], req[w2].items[1])
          /\ req[w1].result = "ok"
          /\ w2 \in req[w1].raced
          /\ req[w2].result # "error" )
        => /\ req[w2].result = "insufficient_stock"
           /\ StockOf(req[w1].items[1]) = 0

\* C2: the stock of every product and of every variant is never below zero.
C2_StockNeverNegative ==
    /\ \A p \in Products : productStock[p] >= 0
    /\ \A v \in Variants : variantStock[v] >= 0

\* the order has a payment transaction: CheckoutModel.create_order made it,
\* the checkout that deducts stock
CreatedByCreateOrder(o) ==
    \E k \in DOMAIN payment_transactions : payment_transactions[k].order_id = o

\* C3: once every order has been cancelled, all of them created by the
\* checkout that deducts stock, and no request is in flight, every stock row
\* is back at its value before the checkouts: the restore of a cancellation
\* adds back what the checkout took, to the row it took it from, and changes
\* no other row.
C3_CancelRestoresWhatCheckoutDeducted ==
    ( /\ \A w \in Workers : Free(w)
      /\ DOMAIN orders # {}
      /\ \A o \in DOMAIN orders :
            orders[o].status = "cancelled" /\ CreatedByCreateOrder(o) )
    => /\ \A p \in Products : productStock[p] = InitStock
       /\ \A v \in Variants : variantStock[v] = InitStock

\* C4: a checkout whose cart has a line that asks for more than the stock of
\* its row never ends in success, so it creates no order.
C4_InsufficientStockNeverSucceeds ==
    \A w \in Workers :
        (req[w].kind \in Checkouts /\ req[w].short) => req[w].result # "ok"

\* the request of worker w moves in this step; the note of the checkouts that
\* overlapped its commit does not count
Moves(w) == [req'[w] EXCEPT !.raced = {}] # [req[w] EXCEPT !.raced = {}]

\* worker w takes up a checkout in this step
CheckoutBegins(w) ==
    /\ Free(w)
    /\ Moves(w)
    /\ req'[w].kind \in Checkouts

\* C5: a checkout of a user whose cart exists and has no lines ends at once
\* with the empty-cart error and writes no row and changes no stock.
C5_EmptyCartWritesNothing ==
    [][\A w \in Workers :
          ( /\ CheckoutBegins(w)
            /\ req'[w].user \in cart
            /\ cart_items[req'[w].user] = <<>> )
          => /\ req'[w].pc = "done"
             /\ req'[w].result = "cart_empty"
             /\ UNCHANGED <<dbvars, nextOrderId>>]_vars

\* a checkout of an existing cart without lines was answered with the error
C5_Witness ==
    \E w \in Workers :
        /\ req[w].kind \in Checkouts
        /\ req[w].pc = "done"
        /\ req[w].result = "cart_empty"
        /\ req[w].user \in cart
        /\ cart_items[req[w].user] = <<>>

\* C6: every step of a checkout other than its successful commit leaves the
\* orders, order items, history, payments, stock and cart tables as they were,
\* so a checkout that fails before the commit leaves nothing behind.
C6_CheckoutAllOrNothing ==
    [][\A w \in Workers :
          ( /\ Moves(w)
            /\ req'[w].kind \in Checkouts
            /\ req'[w].result # "ok" )
          => UNCHANGED dbvars]_vars

\* a checkout failed after it had inserted its order, and no order is stored
C6_Witness ==
    \E w \in Workers :
        /\ req[w].kind \in Checkouts
        /\ req[w].pc = "done"
        /\ req[w].result = "error"
        /\ nextOrderId > 1
        /\ DOMAIN orders = {}
        /\ order_items = <<>>
        /\ cart_items[req[w].user] # <<>>

ItemsOf(o) == SelectSeq(order_items, LAMBDA it : it.order_id = o)

\* C8: the subtotals of the items of an order add up to the order's subtotal,
\* and the subtotal of each item is its unit price times its quantity.
C8_ItemSubtotalsAddUp ==
    \A o \in DOMAIN orders :
        LET its == ItemsOf(o)
        IN /\ SumSeq([k \in DOMAIN its |-> its[k].subtotal]) = orders[o].subtotal
           /\ \A k \in DOMAIN its : its[k].subtotal = its[k].price * its[k].quantity

\* an order of two lines, one of them with a quantity of two
C8_Witness ==
    \E o \in DOMAIN orders :
        /\ Len(ItemsOf(o)) = 2
        /\ \E k \in DOMAIN ItemsOf(o) : ItemsOf(o)[k].quantity = 2

\* worker w takes up a request of a seller route in this step
SellerBegins(w) ==
    /\ Free(w)
    /\ Moves(w)
    /\ req'[w].kind = "seller_status"

Earlier(a, b) ==
    /\ a \in Range(status_order)
    /\ b \in Range(status_order)
    /\ StatusIndex(a) < StatusIndex(b)

\* C11: a request of a seller route for a status that comes before the status
\* it finds on the path pending, processing, shipped, delivered is never
\* carried out, so the position of an order's status never decreases.
C11_NoMoveToEarlierStatus ==
    \A w \in Workers :
        ( /\ req[w].kind = "seller_status"
          /\ Earlier(req[w].status, req[w].cur) )
        => req[w].result # "ok"

\* C12: a status change that the admin route or CheckoutModel carries out is
\* one the validator of the seller routes allows: it does not move an order
\* out of cancelled or delivered, cancel a shipped order, or move an order to
\* an earlier status.
C12_EveryEntryPointValidates ==
    \A w \in Workers :
        ( /\ req[w].kind \in {"admin_status", "checkout_status"}
          /\ req[w].result = "ok"
          /\ req[w].cur # "" )
        => validate_status_transition(req[w].cur, req[w].status)

HistoryGrowsBy(rows) == order_status_history' = order_status_history \o rows

HistoryOf(order_id) ==
    SelectSeq(order_status_history, LAMBDA h : h.order_id = order_id)

\* C14: once no request is in flight, the status of every order is the status
\* of the last history row of that order: a transition leaves no order with a
\* changed status and without the history row of the change.
C14_StatusAndHistoryTogether ==
    (\A w \in Workers : Free(w)) =>
        \A o \in DOMAIN orders :
            /\ HistoryOf(o) # <<>>
            /\ HistoryOf(o)[Len(HistoryOf(o))].status = orders[o].status

\* C15: a request of a seller route by a caller who is neither the admin nor a
\* seller with status active or approved who owns a line of the order is
\* answered 403 and writes nothing.
C15_OnlyOwningSellerOrAdmin ==
    [][\A w \in Workers :
          (SellerBegins(w) /\ ~req'[w].entitled) =>
              /\ req'[w].pc = "done"
              /\ req'[w].result = "forbidden"
              /\ UNCHANGED dbvars
      ]_vars

C15_Witness ==
    \E w \in Workers :
        /\ req[w].kind = "seller_status"
        /\ req[w].result = "forbidden"
        /\ ~req[w].entitled
        /\ \E k \in DOMAIN order_items : seller_id[order_items[k].product_id] = 3

LookupBegins(w) ==
    /\ Free(w)
    /\ Moves(w)
    /\ req'[w].kind \in LookupKinds

Answer(r) == [result |-> r.result, order |-> r.order, items |-> r.pitems, history |-> r.phist]

\* C16: each of the three customer lookups answers with the order when the
\* caller is the user of the order, and otherwise with the answer "not found",
\* which has no field of the order and is the same whether the id belongs to
\* another user's order or to no order.
C16_LookupOnlyForOwner ==
    [][\A w \in Workers :
          LookupBegins(w) =>
              LET o == req'[w].order_id
              IN IF o \in DOMAIN orders /\ orders[o].user_id = req'[w].user
                 THEN /\ req'[w].result = "ok"
                      /\ req'[w].order = orders[o]
                 ELSE Answer(req'[w]) =
                         [result |-> "not_found", order |-> NoOrder,
                          items |-> <<>>, history |-> <<>>]
      ]_vars

C16_Witness ==
    \E w \in Workers :
        /\ req[w].kind = "get_order"
        /\ req[w].result = "not_found"
        /\ req[w].order_id \in DOMAIN orders
        /\ orders[req[w].order_id].user_id # req[w].user

PaymentsOf(o) == SelectSeq(payment_transactions, LAMBDA t : t.order_id = o)

\* C17: every order a checkout has committed has exactly one payment
\* transaction, with status pending and the order's total as its amount.
C17_OrderHasItsPaymentTransaction ==
    \A o \in DOMAIN orders :
        /\ Len(PaymentsOf(o)) = 1
        /\ PaymentsOf(o)[1].status = "pending"
        /\ PaymentsOf(o)[1].amount = orders[o].total

\* the shipping fees the two checkouts agree on
FixedShippingFee ==
    [standard |-> Cents(5000), express |-> Cents(15000), pickup |-> 0]

PartsFromSubtotal(order) ==
    LET its == ItemsOf(order.id)
    IN /\ order.subtotal = SumSeq([k \in DOMAIN its |-> its[k].price * its[k].quantity])
       /\ order.tax * 100 = order.subtotal * 12
       /\ order.marketplace_fee * 100 = order.subtotal * 2

TwoUnitsAtHundred(order) ==
    /\ Len(ItemsOf(order.id)) = 1
    /\ ItemsOf(order.id)[1].price = Cents(10000)
    /\ ItemsOf(order.id)[1].quantity = 2
    /\ order.delivery_option = "standard"

ScenarioA(order) ==
    /\ order.subtotal = Cents(20000)
    /\ order.tax = Cents(2400)
    /\ order.marketplace_fee = Cents(400)
    /\ order.shipping_fee = Cents(5000)
    /\ order.total = Cents(27800)

\* C18: the subtotal of an order is the sum of unit price times quantity of
\* its items, its tax 12% and its marketplace fee 2% of the subtotal; with a
\* subtotal below 5000.00 its shipping fee is 50.00 for standard, 150.00 for
\* express and 0.00 for pickup; two units at 100.00 with standard delivery give
\* 200.00, 24.00, 4.00, 50.00 and the total 278.00.
C18_PartsOfTheTotal ==
    \A o \in DOMAIN orders :
        /\ PartsFromSubtotal(orders[o])
        /\ ( /\ orders[o].subtotal < Cents(500000)
             /\ orders[o].delivery_option \in DOMAIN FixedShippingFee )
           => orders[o].shipping_fee = FixedShippingFee[orders[o].delivery_option]
        /\ TwoUnitsAtHundred(orders[o]) => ScenarioA(orders[o])

C18_Witness ==
    /\ \E o \in DOMAIN orders : TwoUnitsAtHundred(orders[o])
    /\ \E o \in DOMAIN orders :
          orders[o].delivery_option = "express" /\ orders[o].tax % Cents(1) # 0

\* C18 as stated: the shipping fee comes from the table for every cart
C18_ShippingFeeAlwaysFromTable ==
    \A o \in DOMAIN orders :
        orders[o].delivery_option \in DOMAIN FixedShippingFee
        => orders[o].shipping_fee = FixedShippingFee[orders[o].delivery_option]

\* C19: an order with a subtotal of at least 5000.00 and a delivery option
\* other than pickup has the shipping fee 0.00.
C19_FreeShippingFromFiveThousand ==
    \A o \in DOMAIN orders :
        ( /\ orders[o].subtotal >= Cents(500000)
          /\ orders[o].delivery_option # "pickup" )
        => orders[o].shipping_fee = 0

\* the customers among the principals
CustomerPrincipals == {c \in Principals : c.role = "customer"}

\* C20: when the customer of an order that is pending or processing asks for
\* its cancellation at the cancel route, the request passes the access checks
\* and the validator and is taken up.
C20_OwnerMayCancel ==
    [][\A w \in Workers, c \in CustomerPrincipals, o \in DOMAIN orders :
          ( /\ orders[o].user_id = c.id
            /\ orders[o].status \in {"pending", "processing"}
            /\ CancelOrder(w, c, o) )
          => req'[w].pc = "update"
      ]_vars

\* C21: a request of a seller route that finds the order pending and asks for
\* delivered is answered as rejected; it is never taken up.
C21_PendingToDeliveredRejected ==
    \A w \in Workers :
        ( /\ req[w].kind = "seller_status"
          /\ req[w].cur = "pending"
          /\ req[w].status = "delivered" )
        => /\ req[w].pc = "done"
           /\ req[w].result = "rejected"

\* the units a request has taken off stock rows so far
Deducted(r) == SumSeq(r.dProd) + SumSeq(r.dVar)

Ordered(r) == SumSeq([k \in DOMAIN r.items |-> r.items[k].quantity])

\* C22: once a checkout in flight has written its order row, the stock of all
\* its lines has been deducted: no deduction follows the order row.
C22_DeductionBeforeOrderRow ==
    \A w \in Workers :
        ( /\ req[w].kind = "create_order"
          /\ InFlight(w)
          /\ req[w].order # NoOrder )
        => Deducted(req[w]) = Ordered(req[w])

\* C23: a timestamp of an order that has a value is not written again; the
\* model's timestamps count the writes of NOW(), so none of them exceeds one.
C23_TimestampsWrittenOnce ==
    \A o \in DOMAIN orders :
        /\ orders[o].shipped_at <= 1
        /\ orders[o].delivered_at <= 1
        /\ orders[o].cancelled_at <= 1

\* the units of the committed order lines that name stock row p, or variant v
ProductUnits(p) ==
    SumSeq([k \in DOMAIN order_items |->
              IF order_items[k].product_id = p /\ order_items[k].variant_id = NULL
              THEN order_items[k].quantity ELSE 0])

VariantUnits(v) ==
    SumSeq([k \in DOMAIN order_items |->
              IF order_items[k].variant_id = v THEN order_items[k].quantity ELSE 0])

\* C24: with checkouts served one at a time, every stock row is below its
\* first value by exactly the units of the committed order lines that name
\* it: the variant's row for a line with a variant, else the product's row.
C24_EachLineDeductsItsStockRow ==
    /\ \A p \in Products : productStock[p] = InitStock - ProductUnits(p)
    /\ \A v \in Variants : variantStock[v] = InitStock - VariantUnits(v)

\* C25: no order is created for a delivery option other than standard,
\* express, same_day and pickup.
C25_NoOrderForUnknownDeliveryOption ==
    \A o \in DOMAIN orders : orders[o].delivery_option \in AllDeliveryOptions

\* the columns of an order that are written at its creation only
Amounts(order) ==
    [user_id |-> order.user_id, subtotal |-> order.subtotal, tax |-> order.tax,
     shipping_fee |-> order.shipping_fee, marketplace_fee |-> order.marketplace_fee,
     discount |-> order.discount, total |-> order.total]

\* C26: no step of a seller route, of the admin route, of
\* CheckoutModel.update_order_status or of CheckoutModel.update_payment_status
\* removes an order, changes its owner or one of its amounts, or changes the
\* items of the order.
C26_OrderAmountsAndItemsFrozen ==
    [][\A o \in DOMAIN orders :
          /\ o \in DOMAIN orders'
          /\ Amounts(orders'[o]) = Amounts(orders[o])
          /\ SelectSeq(order_items', LAMBDA it : it.order_id = o) = ItemsOf(o)
      ]_vars

C26_Witness ==
    \E o \in DOMAIN orders :
        /\ orders[o].status = "cancelled"
        /\ orders[o].payment_status = "paid"
        /\ orders[o].paid_at > 0
        /\ orders[o].total > 0
        /\ ItemsOf(o) # <<>>

\* C27: the status of every order is one of pending, processing, shipped,
\* delivered and cancelled.
C27_StatusIsOneOfFive ==
    \A o \in DOMAIN orders : orders[o].status \in ValidStatuses

\* C28: with every order created by the checkout that deducts stock, no stock
\* row rises above its first value: a cancellation gives back what the
\* checkout took, and gives it back once.
C28_StockRestoredAtMostOnce ==
    /\ \A p \in Products : productStock[p] <= InitStock
    /\ \A v \in Variants : variantStock[v] <= InitStock

\* C29: when no request is in flight and none has ended in an error, the last
\* history row of every order carries the status of the order.
C29_LastHistoryRowIsTheStatus ==
    (\A w \in Workers : Free(w) /\ req[w].result # "error") =>
        \A o \in DOMAIN orders :
            \E k \in DOMAIN order_status_history :
                /\ order_status_history[k].order_id = o
                /\ order_status_history[k].status = orders[o].status
                /\ \A j \in DOMAIN order_status_history :
                      order_status_history[j].order_id = o => j <= k

\* C30: of two checkouts of one user that have read the same non-empty cart,
\* the second still in progress when the first committed, at most one ends
\* with an order.
C30_OneOrderPerCart ==
    \A w1, w2 \in Workers :
        ( /\ w1 # w2
          /\ req[w1].kind \in Checkouts /\ req[w2].kind \in Checkouts
          /\ req[w1].user = req[w2].user
          /\ req[w1].items # <<>>
          /\ req[w1].items = req[w2].items
          /\ w2 \in req[w1].raced )
        => ~(req[w1].result = "ok" /\ req[w2].result = "ok")

=============================================================================
